---- MODULE Spec2Model ----
(***************************************************************************)
(* Model of NetworkInterface (network_interface.cc): the ARP cache         *)
(* arp_table_, the table of datagrams waiting for resolution queue_table_, *)
(* the outbound queue frame_queue_ and the clock curr_time_, driven by     *)
(* send_datagram, recv_frame, tick and maybe_send.                         *)
(***************************************************************************)
EXTENDS Integers, Sequences, FiniteSets, TLC

\* ---------------------------------------------------------------- bounds
\* calls of send_datagram, frames held in frame_queue_, calls of tick, and
\* (in SpecLogged) frames ever pushed
MaxSends == 2
MaxFrames == 2
MaxTicks == 1
MaxLogged == 2
MaxCalls == 6
MaxLiveCalls == 4
MaxPairSends == 3

\* ------------------------------------------------------ program constants
ethernet_address_ == 1
ip_address_ == 1
ETHERNET_BROADCAST == 255
ZERO_ADDRESS == 0
TYPE_IPv4 == "IPv4"
TYPE_ARP == "ARP"
OPCODE_REQUEST == "REQUEST"
OPCODE_REPLY == "REPLY"
CACHE_TTL == 30000
PENDING_TTL == 5000

\* ------------------------------------------------------------ input sets
PeerIPs == {2}
NextHops == PeerIPs \cup {ip_address_}
StrangerMACs == {9}
Deltas == {5000, 30000, 30001}

VARIABLES arp_table, queue_table, frame_queue, curr_time, nsent, nticks, dropped,
          enqueued, drained, requests, carried, sent, learned, ncalls, last, pre,
          net

\* arp_table   : arp_table_,   IP -> [first: time learnt, second: address]
\* queue_table : queue_table_, IP -> [first: time of the request,
\*                                    second: the datagrams waiting]
\* frame_queue : frame_queue_, the frames ready to be sent, oldest first
\* curr_time   : curr_time_
\* nsent, nticks : calls of send_datagram and of tick made so far
\* dropped     : the datagrams discarded by an expiry of queue_table_
\* enqueued, drained : every frame pushed / returned by maybe_send (SpecLogged)
\* requests    : the ARP requests pushed, as [ip, at], oldest first (SpecTraced)
\* carried     : the IPv4 frames pushed, oldest first (SpecTraced)
\* sent        : the calls of send_datagram, as [dgram, next_hop] (SpecTraced)
\* learned     : the <<IP, address>> pairs of the ARP messages parsed (SpecTraced)
\* ncalls      : the calls made so far (SpecTraced)
\* last, pre   : the call just made, and the state it was made in
\* net         : two interfaces and the wires between them (SpecPair)
vars == <<arp_table, queue_table, frame_queue, curr_time, nsent, nticks, dropped,
          enqueued, drained, requests, carried, sent, learned, ncalls, last, pre,
          net>>
logs == <<enqueued, drained, net>>
traces == <<requests, carried, sent, learned, ncalls>>

\* ------------------------------------------------------------- std::map
EmptyMap == [k \in {} |-> 0]
contains(map, k) == k \in DOMAIN map
Put(map, k, v) == [x \in (DOMAIN map) \cup {k} |-> IF x = k THEN v ELSE map[x]]
Erase(map, ks) == [x \in (DOMAIN map) \ ks |-> map[x]]

\* ------------------------------------------------------- std::optional
Nothing == <<>>
Some(x) == <<x>>

\* --------------------------------------- serialize / parse (collaborators)
serialize_dgram(dgram) == [kind |-> "dgram", dgram |-> dgram]
serialize_arp(arpmsg) == [kind |-> "arp", arpmsg |-> arpmsg]
BadPayload == [kind |-> "bad"]
parse_dgram(payload) == payload.kind = "dgram"
parse_arp(payload) == payload.kind = "arp"

ARPMessage(op, sha, spa, tha, tpa) ==
  [opcode |-> op, sender_ethernet_address |-> sha, sender_ip_address |-> spa,
   target_ethernet_address |-> tha, target_ip_address |-> tpa]

EthernetFrame(dst, src, type, payload) ==
  [dst |-> dst, src |-> src, type |-> type, payload |-> payload]

\* the datagram handed to the n-th call of send_datagram
Dgram(n) == n

\* ------------------------------------------------------- inbound frames
ProbeARP == ARPMessage(OPCODE_REQUEST, 2, 2, ZERO_ADDRESS, ip_address_)

InARP ==
  { ProbeARP,
    ARPMessage(OPCODE_REQUEST, 2, 2, ZERO_ADDRESS, 3),
    ARPMessage(OPCODE_REPLY, 2, 2, ethernet_address_, ip_address_),
    ARPMessage(OPCODE_REPLY, 3, 2, ethernet_address_, ip_address_) }

InFrames ==
  { EthernetFrame(IF m.opcode = OPCODE_REQUEST THEN ETHERNET_BROADCAST ELSE ethernet_address_,
                  m.sender_ethernet_address, TYPE_ARP, serialize_arp(m)) : m \in InARP }
  \cup { EthernetFrame(ethernet_address_, 2, TYPE_ARP, serialize_arp(ProbeARP)),
         EthernetFrame(ethernet_address_, 2, TYPE_IPv4, serialize_dgram(Dgram(7))),
         EthernetFrame(ETHERNET_BROADCAST, 2, TYPE_IPv4, BadPayload),
         EthernetFrame(ethernet_address_, 2, TYPE_ARP, serialize_dgram(Dgram(7))) }
  \cup { EthernetFrame(dst, 2, TYPE_ARP, serialize_arp(ProbeARP)) : dst \in StrangerMACs }

\* ------------------------------------------------------- two interfaces
\* An interface as a value: the members of one NetworkInterface object.
NetworkInterface(ethernet_address, ip_address) ==
  [ethernet_address_ |-> ethernet_address, ip_address_ |-> ip_address,
   arp_table_ |-> EmptyMap, queue_table_ |-> EmptyMap,
   frame_queue_ |-> <<>>, curr_time_ |-> 0]

\* A is the interface of the single-interface specifications; B is its peer.
PairA == [mac |-> ethernet_address_, ip |-> ip_address_]
PairB == [mac |-> 2, ip |-> 2]
PairDgrams == {Dgram(7), Dgram(8), Dgram(9)}
Other(x) == IF x = "A" THEN "B" ELSE "A"

\* ----------------------------------------------------------------- state
State ==
  [arp_table |-> arp_table, queue_table |-> queue_table,
   frame_queue |-> frame_queue, curr_time |-> curr_time]

Init ==
  /\ arp_table = EmptyMap
  /\ queue_table = EmptyMap
  /\ frame_queue = <<>>
  /\ curr_time = 0
  /\ nsent = 0
  /\ nticks = 0
  /\ dropped = {}
  /\ enqueued = <<>>
  /\ drained = <<>>
  /\ requests = <<>>
  /\ carried = <<>>
  /\ sent = <<>>
  /\ learned = {}
  /\ ncalls = 0
  /\ last = [op |-> "init", arg |-> <<>>, ret |-> Nothing]
  /\ pre = [arp_table |-> EmptyMap, queue_table |-> EmptyMap,
            frame_queue |-> <<>>, curr_time |-> 0]
  /\ net = [nic |-> [A |-> NetworkInterface(PairA.mac, PairA.ip),
                     B |-> NetworkInterface(PairB.mac, PairB.ip)],
            wire |-> [A |-> <<>>, B |-> <<>>],
            pushed |-> [A |-> <<>>, B |-> <<>>],
            returned |-> [A |-> <<>>, B |-> <<>>],
            sent |-> <<>>]

\* ------------------------------------------------- send_datagram (23-68)
\* variant: the frame goes to broadcast instead of the cached address
SendHitFrameBroadcast(dgram, next_hop) ==
  EthernetFrame(ETHERNET_BROADCAST, ethernet_address_, TYPE_IPv4,
                serialize_dgram(dgram))

SendHitFrame(dgram, next_hop) ==
  EthernetFrame(arp_table[next_hop].second, ethernet_address_, TYPE_IPv4,
                serialize_dgram(dgram))

\* variant: the request names the wanted IP as its sender and the local IP
\* as its target
SendRequestFrameSwapped(next_hop) ==
  EthernetFrame(ETHERNET_BROADCAST, ethernet_address_, TYPE_ARP,
    serialize_arp(ARPMessage(OPCODE_REQUEST, ethernet_address_, next_hop,
                             ZERO_ADDRESS, ip_address_)))

SendRequestFrame(next_hop) ==
  EthernetFrame(ETHERNET_BROADCAST, ethernet_address_, TYPE_ARP,
    serialize_arp(ARPMessage(OPCODE_REQUEST, ethernet_address_, ip_address_,
                             ZERO_ADDRESS, next_hop)))

SendQueueTable(dgram, next_hop) ==
  IF contains(arp_table, next_hop) THEN queue_table
  ELSE IF contains(queue_table, next_hop)
       THEN Put(queue_table, next_hop,
                [first |-> queue_table[next_hop].first,
                 second |-> Append(queue_table[next_hop].second, dgram)])
       ELSE Put(queue_table, next_hop,
                [first |-> curr_time, second |-> <<dgram>>])

SendPushed(dgram, next_hop) ==
  IF contains(arp_table, next_hop) THEN <<SendHitFrame(dgram, next_hop)>>
  ELSE IF contains(queue_table, next_hop) THEN <<>>
       ELSE <<SendRequestFrame(next_hop)>>

send_datagram(dgram, next_hop) ==
  /\ queue_table' = SendQueueTable(dgram, next_hop)
  /\ frame_queue' = frame_queue \o SendPushed(dgram, next_hop)
  /\ UNCHANGED <<arp_table, curr_time>>

\* --------------------------------------------------- recv_frame (72-132)
\* variant: no check of the destination address
ForMeAny(frame) == frame.dst = frame.dst

ForMe(frame) == frame.dst = ethernet_address_ \/ frame.dst = ETHERNET_BROADCAST

ValidARP(frame) ==
  ForMe(frame) /\ frame.type = TYPE_ARP /\ parse_arp(frame.payload)

\* variant: the payload is tried as a datagram whatever the frame's type
ValidIPv4AnyType(frame) ==
  ForMe(frame) /\ parse_dgram(frame.payload)

ValidIPv4(frame) ==
  ForMe(frame) /\ frame.type = TYPE_IPv4 /\ parse_dgram(frame.payload)

RecvReplyFrame(arpmsg) ==
  EthernetFrame(arpmsg.sender_ethernet_address, ethernet_address_, TYPE_ARP,
    serialize_arp(ARPMessage(OPCODE_REPLY, ethernet_address_, ip_address_,
                             arpmsg.sender_ethernet_address, arpmsg.sender_ip_address)))

\* variant: every request is answered, whatever its target IP
RecvReplyAnyTarget(arpmsg) ==
  IF arpmsg.opcode = OPCODE_REQUEST
  THEN <<RecvReplyFrame(arpmsg)>> ELSE <<>>

RecvReply(arpmsg) ==
  IF arpmsg.opcode = OPCODE_REQUEST /\ arpmsg.target_ip_address = ip_address_
  THEN <<RecvReplyFrame(arpmsg)>> ELSE <<>>

\* arpmsg as the drain loop reads it: answering a request for the local IP
\* rewrites the message in place (lines 96-100), so that its sender becomes
\* the interface itself and its target the requester.
RecvArpmsg(arpmsg) ==
  IF arpmsg.opcode = OPCODE_REQUEST /\ arpmsg.target_ip_address = ip_address_
  THEN ARPMessage(OPCODE_REPLY, ethernet_address_, ip_address_,
                  arpmsg.sender_ethernet_address, arpmsg.sender_ip_address)
  ELSE arpmsg

\* queue_table_[ip]: std::map::operator[] inserts a value-initialised entry
QueueEntry(ip) ==
  IF contains(queue_table, ip) THEN queue_table[ip]
  ELSE [first |-> 0, second |-> <<>>]

RecvFlush(arpmsg) ==
  LET msg == RecvArpmsg(arpmsg)
      waiting == QueueEntry(msg.sender_ip_address).second
  IN [i \in 1..Len(waiting) |->
        EthernetFrame(msg.sender_ethernet_address, ethernet_address_, TYPE_IPv4,
                      serialize_dgram(waiting[i]))]

RecvQueueTable(arpmsg) ==
  LET ip == RecvArpmsg(arpmsg).sender_ip_address
  IN Put(queue_table, ip, [first |-> QueueEntry(ip).first, second |-> <<>>])

\* variant: an address already cached is not overwritten
RecvArpTableKeep(arpmsg) ==
  IF contains(arp_table, arpmsg.sender_ip_address) THEN arp_table
  ELSE Put(arp_table, arpmsg.sender_ip_address,
           [first |-> curr_time, second |-> arpmsg.sender_ethernet_address])

RecvArpTable(arpmsg) ==
  Put(arp_table, arpmsg.sender_ip_address,
      [first |-> curr_time, second |-> arpmsg.sender_ethernet_address])

RecvPushed(frame) ==
  IF ValidARP(frame)
  THEN RecvReply(frame.payload.arpmsg) \o RecvFlush(frame.payload.arpmsg)
  ELSE <<>>

RecvReturn(frame) ==
  IF ValidIPv4(frame) THEN Some(frame.payload.dgram) ELSE Nothing

recv_frame(frame) ==
  /\ arp_table' = IF ValidARP(frame) THEN RecvArpTable(frame.payload.arpmsg) ELSE arp_table
  /\ queue_table' = IF ValidARP(frame) THEN RecvQueueTable(frame.payload.arpmsg) ELSE queue_table
  /\ frame_queue' = frame_queue \o RecvPushed(frame)
  /\ UNCHANGED curr_time

\* -------------------------------------- erase_expired_item (158-173)
\* variant: an entry expires as soon as its age reaches expire_time
erase_expired_item_early(map, expire_time, now) ==
  LET discard_ip == {ip \in DOMAIN map : now - map[ip].first >= expire_time}
  IN Erase(map, discard_ip)

erase_expired_item(map, expire_time, now) ==
  LET discard_ip == {ip \in DOMAIN map : now - map[ip].first > expire_time}
  IN Erase(map, discard_ip)

\* ------------------------------------------------------- tick (136-144)
\* variant: the waiting datagrams are swept as soon as their age reaches the limit
tick_pending_early(ms_since_last_tick) ==
  /\ curr_time' = curr_time + ms_since_last_tick
  /\ arp_table' = erase_expired_item(arp_table, CACHE_TTL, curr_time')
  /\ queue_table' = erase_expired_item_early(queue_table, PENDING_TTL, curr_time')
  /\ UNCHANGED frame_queue

\* variant: only the waiting datagrams are swept
tick_pending_only(ms_since_last_tick) ==
  /\ curr_time' = curr_time + ms_since_last_tick
  /\ queue_table' = erase_expired_item(queue_table, PENDING_TTL, curr_time')
  /\ UNCHANGED <<arp_table, frame_queue>>

tick(ms_since_last_tick) ==
  /\ curr_time' = curr_time + ms_since_last_tick
  /\ arp_table' = erase_expired_item(arp_table, CACHE_TTL, curr_time')
  /\ queue_table' = erase_expired_item(queue_table, PENDING_TTL, curr_time')
  /\ UNCHANGED frame_queue

\* ------------------------------------------------- maybe_send (146-156)
MaybeSendReturn ==
  IF frame_queue = <<>> THEN Nothing ELSE Some(Head(frame_queue))

\* variant: the newest frame is removed
maybe_send_newest ==
  /\ frame_queue' = IF frame_queue = <<>> THEN frame_queue
                    ELSE SubSeq(frame_queue, 1, Len(frame_queue) - 1)
  /\ UNCHANGED <<arp_table, queue_table, curr_time>>

maybe_send ==
  /\ frame_queue' = IF frame_queue = <<>> THEN frame_queue ELSE Tail(frame_queue)
  /\ UNCHANGED <<arp_table, queue_table, curr_time>>

\* ---------------------------------------------------------- the driver
\* The callers of the four operations: they choose the inputs, number the
\* datagrams, and record the call just made (last) with the state it was
\* made in (pre), and the datagrams that an expiry discarded (dropped).
\* the datagrams waiting in the queues of a queue_table_
Waiting(table) ==
  UNION { { table[ip].second[i] : i \in 1..Len(table[ip].second) } : ip \in DOMAIN table }

Call(op, arg, ret) ==
  /\ last' = [op |-> op, arg |-> arg, ret |-> ret]
  /\ pre' = State

SendCall(next_hop) ==
  /\ nsent < MaxSends
  /\ Len(frame_queue) + Len(SendPushed(Dgram(nsent + 1), next_hop)) <= MaxFrames
  /\ send_datagram(Dgram(nsent + 1), next_hop)
  /\ nsent' = nsent + 1
  /\ Call("send_datagram", [dgram |-> Dgram(nsent + 1), next_hop |-> next_hop], Nothing)
  /\ UNCHANGED <<nticks, dropped>>

RecvCall(frame) ==
  /\ Len(frame_queue) + Len(RecvPushed(frame)) <= MaxFrames
  /\ recv_frame(frame)
  /\ Call("recv_frame", frame, RecvReturn(frame))
  /\ UNCHANGED <<nsent, nticks, dropped>>

TickCall(ms) ==
  /\ nticks < MaxTicks
  /\ tick(ms)
  /\ nticks' = nticks + 1
  /\ dropped' = dropped \cup (Waiting(queue_table) \ Waiting(queue_table'))
  /\ Call("tick", ms, Nothing)
  /\ UNCHANGED nsent

DrainCall ==
  /\ maybe_send
  /\ Call("maybe_send", <<>>, MaybeSendReturn)
  /\ UNCHANGED <<nsent, nticks, dropped>>

Send == \E next_hop \in NextHops : SendCall(next_hop) /\ UNCHANGED <<logs, traces>>
Recv == \E frame \in InFrames : RecvCall(frame) /\ UNCHANGED <<logs, traces>>
Tick == \E ms \in Deltas : TickCall(ms) /\ UNCHANGED <<logs, traces>>
Drain == DrainCall /\ UNCHANGED <<logs, traces>>

Next == Send \/ Recv \/ Tick \/ Drain

Spec == Init /\ [][Next]_vars

\* The same driver keeping a log of every frame pushed onto frame_queue_
\* (enqueued) and of every frame maybe_send returned (drained).
Logged(pushed, returned) ==
  /\ Len(enqueued) + Len(pushed) <= MaxLogged
  /\ enqueued' = enqueued \o pushed
  /\ drained' = drained \o returned
  /\ UNCHANGED net

SendLogged ==
  \E next_hop \in NextHops :
    /\ SendCall(next_hop)
    /\ Logged(SendPushed(Dgram(nsent + 1), next_hop), <<>>)
    /\ UNCHANGED traces
RecvLogged ==
  \E frame \in InFrames :
    RecvCall(frame) /\ Logged(RecvPushed(frame), <<>>) /\ UNCHANGED traces
TickLogged == \E ms \in Deltas : TickCall(ms) /\ Logged(<<>>, <<>>) /\ UNCHANGED traces
DrainLogged == DrainCall /\ Logged(<<>>, MaybeSendReturn) /\ UNCHANGED traces

NextLogged == SendLogged \/ RecvLogged \/ TickLogged \/ DrainLogged

SpecLogged == Init /\ [][NextLogged]_vars

\* ------------------------------------------------ the calls, with a trace
\* The program run while recording what it was asked to send, the requests
\* and IPv4 frames it pushed, and the address pairs it was told.
RequestsIn(pushed, now) ==
  LET reqs == SelectSeq(pushed, LAMBDA f :
                /\ f.type = TYPE_ARP
                /\ f.payload.arpmsg.opcode = OPCODE_REQUEST)
  IN [i \in 1..Len(reqs) |->
        [ip |-> reqs[i].payload.arpmsg.target_ip_address, at |-> now]]

Traced(pushed) ==
  /\ ncalls < MaxCalls
  /\ ncalls' = ncalls + 1
  /\ requests' = requests \o RequestsIn(pushed, curr_time)
  /\ carried' = carried \o SelectSeq(pushed, LAMBDA f : f.type = TYPE_IPv4)

SendTraced ==
  \E next_hop \in NextHops :
    /\ SendCall(next_hop)
    /\ Traced(SendPushed(Dgram(nsent + 1), next_hop))
    /\ sent' = Append(sent, [dgram |-> Dgram(nsent + 1), next_hop |-> next_hop])
    /\ UNCHANGED <<logs, learned>>
RecvTraced ==
  \E frame \in InFrames :
    /\ RecvCall(frame)
    /\ Traced(RecvPushed(frame))
    /\ learned' = IF ValidARP(frame)
                  THEN learned \cup {<<frame.payload.arpmsg.sender_ip_address,
                                       frame.payload.arpmsg.sender_ethernet_address>>}
                  ELSE learned
    /\ UNCHANGED <<logs, sent>>
TickTraced ==
  \E ms \in Deltas : TickCall(ms) /\ Traced(<<>>) /\ UNCHANGED <<logs, sent, learned>>
DrainTraced == DrainCall /\ Traced(<<>>) /\ UNCHANGED <<logs, sent, learned>>

NextTraced == SendTraced \/ RecvTraced \/ TickTraced \/ DrainTraced

SpecTraced == Init /\ [][NextTraced]_vars

\* -------------------------------------------- the calls, with a live clock
\* The traced program, for MaxLiveCalls calls, with a driver that keeps
\* calling tick for as long as a datagram waits in queue_table_: these calls
\* are not counted, and weak fairness makes them happen.
TickWaiting(ms) ==
  /\ Waiting(queue_table) # {}
  /\ tick(ms)
  /\ dropped' = dropped \cup (Waiting(queue_table) \ Waiting(queue_table'))
  /\ Call("tick", ms, Nothing)
  /\ UNCHANGED <<nsent, nticks>>

TickLive == \E ms \in Deltas : TickWaiting(ms) /\ UNCHANGED <<logs, traces>>

SendLive == ncalls < MaxLiveCalls /\ SendTraced
RecvLive == ncalls < MaxLiveCalls /\ RecvTraced
DrainLive == ncalls < MaxLiveCalls /\ DrainTraced

NextLive == SendLive \/ RecvLive \/ TickLive \/ DrainLive

SpecLive == Init /\ [][NextLive]_vars /\ WF_vars(TickLive)

\* --------------------------------------------- two interfaces on a wire
\* The member functions again, on an interface value nic, so that two
\* objects can run side by side.

\* send_datagram (23-68)
RequestFrameOn(nic, next_hop) ==
  EthernetFrame(ETHERNET_BROADCAST, nic.ethernet_address_, TYPE_ARP,
    serialize_arp(ARPMessage(OPCODE_REQUEST, nic.ethernet_address_, nic.ip_address_,
                             ZERO_ADDRESS, next_hop)))

send_datagram_on(nic, dgram, next_hop) ==
  IF contains(nic.arp_table_, next_hop)
  THEN [nic EXCEPT !.frame_queue_ =
          Append(@, EthernetFrame(nic.arp_table_[next_hop].second,
                                  nic.ethernet_address_, TYPE_IPv4,
                                  serialize_dgram(dgram)))]
  ELSE IF contains(nic.queue_table_, next_hop)
  THEN [nic EXCEPT !.queue_table_ =
          Put(@, next_hop,
              [first |-> nic.queue_table_[next_hop].first,
               second |-> Append(nic.queue_table_[next_hop].second, dgram)])]
  ELSE [nic EXCEPT !.queue_table_ =
          Put(@, next_hop, [first |-> nic.curr_time_, second |-> <<dgram>>]),
                   !.frame_queue_ = Append(@, RequestFrameOn(nic, next_hop))]

\* recv_frame (72-132)
\* variant: the reply is broadcast
ReplyFrameOnBroadcast(nic, arpmsg) ==
  EthernetFrame(ETHERNET_BROADCAST, nic.ethernet_address_, TYPE_ARP,
    serialize_arp(ARPMessage(OPCODE_REPLY, nic.ethernet_address_, nic.ip_address_,
                             arpmsg.sender_ethernet_address, arpmsg.sender_ip_address)))

ReplyFrameOn(nic, arpmsg) ==
  EthernetFrame(arpmsg.sender_ethernet_address, nic.ethernet_address_, TYPE_ARP,
    serialize_arp(ARPMessage(OPCODE_REPLY, nic.ethernet_address_, nic.ip_address_,
                             arpmsg.sender_ethernet_address, arpmsg.sender_ip_address)))

RepliesOn(nic, arpmsg) ==
  IF arpmsg.opcode = OPCODE_REQUEST /\ arpmsg.target_ip_address = nic.ip_address_
  THEN <<ReplyFrameOn(nic, arpmsg)>>
  ELSE <<>>

\* arpmsg as the drain loop reads it (lines 96-100 rewrite it in place)
ArpmsgOn(nic, arpmsg) ==
  IF arpmsg.opcode = OPCODE_REQUEST /\ arpmsg.target_ip_address = nic.ip_address_
  THEN ARPMessage(OPCODE_REPLY, nic.ethernet_address_, nic.ip_address_,
                  arpmsg.sender_ethernet_address, arpmsg.sender_ip_address)
  ELSE arpmsg

FlushOn(nic, arpmsg) ==
  LET msg == ArpmsgOn(nic, arpmsg)
      waiting == IF contains(nic.queue_table_, msg.sender_ip_address)
                 THEN nic.queue_table_[msg.sender_ip_address].second
                 ELSE <<>>
  IN [i \in 1..Len(waiting) |->
        EthernetFrame(msg.sender_ethernet_address, nic.ethernet_address_, TYPE_IPv4,
                      serialize_dgram(waiting[i]))]

recv_arp_on(nic, arpmsg) ==
  [nic EXCEPT
     !.arp_table_ = Put(@, arpmsg.sender_ip_address,
                        [first |-> nic.curr_time_,
                         second |-> arpmsg.sender_ethernet_address]),
     !.queue_table_ = Put(@, ArpmsgOn(nic, arpmsg).sender_ip_address,
                          [first |-> IF contains(@, ArpmsgOn(nic, arpmsg).sender_ip_address)
                                     THEN @[ArpmsgOn(nic, arpmsg).sender_ip_address].first
                                     ELSE 0,
                           second |-> <<>>]),
     !.frame_queue_ = @ \o RepliesOn(nic, arpmsg) \o FlushOn(nic, arpmsg)]

recv_frame_on(nic, frame) ==
  IF frame.dst = nic.ethernet_address_ \/ frame.dst = ETHERNET_BROADCAST
  THEN IF frame.type = TYPE_IPv4
       THEN [nic |-> nic,
             ret |-> IF parse_dgram(frame.payload)
                     THEN Some(frame.payload.dgram) ELSE Nothing]
       ELSE IF frame.type = TYPE_ARP /\ parse_arp(frame.payload)
       THEN [nic |-> recv_arp_on(nic, frame.payload.arpmsg), ret |-> Nothing]
       ELSE [nic |-> nic, ret |-> Nothing]
  ELSE [nic |-> nic, ret |-> Nothing]

\* maybe_send (146-156)
maybe_send_on(nic) ==
  IF nic.frame_queue_ = <<>>
  THEN [nic |-> nic, ret |-> Nothing]
  ELSE [nic |-> [nic EXCEPT !.frame_queue_ = Tail(@)],
        ret |-> Some(Head(nic.frame_queue_))]

\* The frames a call added to frame_queue_.
PushedBy(before, after) ==
  SubSeq(after.frame_queue_, Len(before.frame_queue_) + 1, Len(after.frame_queue_))

\* The variables of the single-interface specifications.
single == <<arp_table, queue_table, frame_queue, curr_time, nsent, nticks, dropped,
            enqueued, drained, traces, last, pre>>

\* A is asked to send a datagram to B's IP address.
PairSend ==
  \E dgram \in PairDgrams :
    LET after == send_datagram_on(net.nic.A, dgram, PairB.ip)
    IN /\ Len(net.sent) < MaxPairSends
       /\ net' = [net EXCEPT !.nic.A = after,
                             !.pushed.A = @ \o PushedBy(net.nic.A, after),
                             !.sent = Append(@, dgram)]
       /\ UNCHANGED single

\* The wire takes the next frame of one interface.
PairDrain ==
  \E x \in {"A", "B"} :
    LET out == maybe_send_on(net.nic[x])
    IN /\ out.ret # Nothing
       /\ net' = [net EXCEPT !.nic[x] = out.nic,
                             !.wire[x] = @ \o out.ret]
       /\ UNCHANGED single

\* The wire hands its oldest frame to the other interface.
PairDeliver ==
  \E x \in {"A", "B"} :
    LET y == Other(x)
        in == recv_frame_on(net.nic[y], Head(net.wire[x]))
    IN /\ net.wire[x] # <<>>
       /\ net' = [net EXCEPT !.nic[y] = in.nic,
                             !.pushed[y] = @ \o PushedBy(net.nic[y], in.nic),
                             !.returned[y] = @ \o in.ret,
                             !.wire[x] = Tail(@)]
       /\ UNCHANGED single

NextPair == PairSend \/ PairDrain \/ PairDeliver

SpecPair == Init /\ [][NextPair]_vars

\* =================================================================
\* Properties.  Each is stated on the call just made (last), the state it
\* was made in (pre) and the state it left.
\* =================================================================
Appended == SubSeq(frame_queue, Len(pre.frame_queue) + 1, Len(frame_queue))
IsPrefix(p, q) == Len(p) <= Len(q) /\ SubSeq(q, 1, Len(p)) = p
IsIPv4(f) == f.type = TYPE_IPv4
IsARP(f) == f.type = TYPE_ARP
RecvdARP == last.op = "recv_frame" /\ ValidARP(last.arg)
Sender == last.arg.payload.arpmsg
PreWaiting(ip) ==
  IF contains(pre.queue_table, ip) THEN pre.queue_table[ip].second ELSE <<>>

\* C1 (as claimed): after recv_frame has processed a valid ARP message whose
\* sender IP is X, queue_table_ has no entry for X.
C1_EntryRemoved ==
  RecvdARP => ~contains(queue_table, Sender.sender_ip_address)

\* C2 (as claimed): the calls of send_datagram to an IP that is not cached
\* push one ARP REQUEST for it in all, the one of the first call, at the time
\* the pending entry carries; a call that finds a pending entry only appends
\* its datagram to that entry's queue: frame_queue_, arp_table_, the entry's
\* timestamp and the clock are unchanged.
C2_OneRequestPerPending ==
  (last.op = "send_datagram" /\ ~contains(pre.arp_table, last.arg.next_hop)) =>
    LET ip == last.arg.next_hop
    IN /\ Cardinality({ i \in 1..Len(requests) :
                          requests[i] = [ip |-> ip, at |-> queue_table[ip].first] }) = 1
       /\ contains(pre.queue_table, ip) =>
            /\ frame_queue = pre.frame_queue
            /\ arp_table = pre.arp_table
            /\ curr_time = pre.curr_time
            /\ queue_table =
                 Put(pre.queue_table, ip,
                     [first |-> pre.queue_table[ip].first,
                      second |-> Append(pre.queue_table[ip].second, last.arg.dgram)])

\* C3 (as claimed): a valid ARP message from (X, M) received while d1..dn wait for X
\* appends exactly the n IPv4 frames for d1..dn, in that order, each from the
\* local address to M; the only other frame it may append is one ARP frame.
C3_FlushInOrder ==
  RecvdARP =>
    LET waiting == PreWaiting(Sender.sender_ip_address)
    IN /\ IsPrefix(pre.frame_queue, frame_queue)
       /\ SelectSeq(Appended, IsIPv4) =
            [i \in 1..Len(waiting) |->
               EthernetFrame(Sender.sender_ethernet_address, ethernet_address_,
                             TYPE_IPv4, serialize_dgram(waiting[i]))]
       /\ Len(Appended) <= Len(waiting) + 1

\* C4: a send_datagram to an IP in arp_table_ appends exactly one frame, the
\* IPv4 frame carrying the datagram to the cached address, and leaves
\* arp_table_ and queue_table_ unchanged.
C4_CacheHit ==
  (last.op = "send_datagram" /\ contains(pre.arp_table, last.arg.next_hop))
  => /\ frame_queue =
          Append(pre.frame_queue,
                 EthernetFrame(pre.arp_table[last.arg.next_hop].second,
                               ethernet_address_, TYPE_IPv4,
                               serialize_dgram(last.arg.dgram)))
     /\ arp_table = pre.arp_table
     /\ queue_table = pre.queue_table

C4_Witness ==
  /\ last.op = "send_datagram"
  /\ contains(pre.arp_table, last.arg.next_hop)
  /\ pre.arp_table[last.arg.next_hop].second = 3
  /\ Len(frame_queue) = Len(pre.frame_queue) + 1

\* C5: tick keeps an arp_table_ entry, unchanged, exactly while the clock is at
\* most 30000 past the time it was learnt and erases it otherwise; no other
\* operation removes or alters an entry except a new ARP message from the same
\* sender; a send_datagram that finds the entry is made within 30000 of its
\* learning and produces one IPv4 frame; and once tick has erased the entry a
\* send_datagram to that IP produces one ARP REQUEST.
C5_CacheTTL ==
  /\ last.op = "tick" =>
       \A ip \in DOMAIN pre.arp_table :
         IF curr_time - pre.arp_table[ip].first <= CACHE_TTL
         THEN contains(arp_table, ip) /\ arp_table[ip] = pre.arp_table[ip]
         ELSE /\ ~contains(arp_table, ip)
              /\ SendPushed(Dgram(nsent + 1), ip) = <<SendRequestFrame(ip)>>
  /\ last.op \in {"send_datagram", "recv_frame", "maybe_send"} =>
       \A ip \in DOMAIN pre.arp_table :
         /\ contains(arp_table, ip)
         /\ \/ arp_table[ip] = pre.arp_table[ip]
            \/ RecvdARP /\ Sender.sender_ip_address = ip
  /\ (last.op = "send_datagram" /\ contains(pre.arp_table, last.arg.next_hop)) =>
       /\ pre.curr_time - pre.arp_table[last.arg.next_hop].first <= CACHE_TTL
       /\ Len(Appended) = 1 /\ IsIPv4(Appended[1])
  /\ (last.op = "send_datagram" /\ ~contains(pre.arp_table, last.arg.next_hop)) =>
       \A i \in 1..Len(Appended) : ~IsIPv4(Appended[i])

C5_Witness ==
  /\ last.op = "tick"
  /\ \E ip \in DOMAIN pre.arp_table :
       /\ curr_time - pre.arp_table[ip].first = CACHE_TTL + 1
       /\ ~contains(arp_table, ip)

\* C6 (as claimed): a send_datagram that finds neither a cache entry nor a pending entry
\* creates the pending entry stamped with the clock; tick keeps a pending
\* entry, unchanged, while the clock is at most 5000 past its stamp and
\* otherwise erases it with its whole queue, and tick enqueues nothing; unless
\* an ARP message from that IP is received, no other operation removes the
\* entry, changes its stamp or takes a datagram out of its queue; a datagram
\* discarded by an expiry waits in no queue and is carried by no frame
\* enqueued from then on.
C6_PendingTTL ==
  /\ (/\ last.op = "send_datagram"
      /\ ~contains(pre.arp_table, last.arg.next_hop)
      /\ ~contains(pre.queue_table, last.arg.next_hop)) =>
       queue_table[last.arg.next_hop] =
         [first |-> pre.curr_time, second |-> <<last.arg.dgram>>]
  /\ last.op = "tick" =>
       /\ frame_queue = pre.frame_queue
       /\ \A ip \in DOMAIN pre.queue_table :
            IF curr_time - pre.queue_table[ip].first <= PENDING_TTL
            THEN contains(queue_table, ip) /\ queue_table[ip] = pre.queue_table[ip]
            ELSE /\ ~contains(queue_table, ip)
                 /\ \A i \in 1..Len(pre.queue_table[ip].second) :
                      pre.queue_table[ip].second[i] \in dropped
  /\ last.op \in {"send_datagram", "recv_frame", "maybe_send"} =>
       \A ip \in DOMAIN pre.queue_table :
         \/ RecvdARP /\ Sender.sender_ip_address = ip
         \/ /\ contains(queue_table, ip)
            /\ queue_table[ip].first = pre.queue_table[ip].first
            /\ IsPrefix(pre.queue_table[ip].second, queue_table[ip].second)
  /\ Waiting(queue_table) \cap dropped = {}
  /\ last.op # "maybe_send" =>
       \A i \in 1..Len(Appended) :
         IsIPv4(Appended[i]) => Appended[i].payload.dgram \notin dropped

\* C7: after recv_frame has parsed an ARP message addressed to the interface
\* or to broadcast, arp_table_ is what it was with the sender's IP mapped to
\* the sender's hardware address, stamped with the current clock.
C7_LearnSender ==
  RecvdARP =>
    /\ curr_time = pre.curr_time
    /\ arp_table =
         Put(pre.arp_table, Sender.sender_ip_address,
             [first |-> curr_time, second |-> Sender.sender_ethernet_address])

C7_Witness ==
  /\ RecvdARP
  /\ Sender.opcode = OPCODE_REQUEST
  /\ Sender.target_ip_address # ip_address_
  /\ contains(pre.arp_table, Sender.sender_ip_address)
  /\ pre.arp_table[Sender.sender_ip_address].second # Sender.sender_ethernet_address
  /\ pre.arp_table[Sender.sender_ip_address].first < curr_time
  /\ ~contains(pre.queue_table, Sender.sender_ip_address)

\* C8: recv_frame appends an ARP frame exactly when the frame is addressed to
\* the interface or to broadcast and carries an ARP REQUEST whose target IP is
\* the local IP; it is then the one REPLY from the local identity to the
\* requester's hardware address and IP.
C8_ReplyIffRequestForMe ==
  last.op = "recv_frame" =>
    LET arps == SelectSeq(Appended, IsARP)
    IN IF /\ ValidARP(last.arg)
          /\ Sender.opcode = OPCODE_REQUEST
          /\ Sender.target_ip_address = ip_address_
       THEN arps =
              << EthernetFrame(Sender.sender_ethernet_address, ethernet_address_, TYPE_ARP,
                   serialize_arp(ARPMessage(OPCODE_REPLY, ethernet_address_, ip_address_,
                                            Sender.sender_ethernet_address,
                                            Sender.sender_ip_address))) >>
       ELSE arps = <<>>

C8_Witness ==
  /\ RecvdARP
  /\ last.arg.dst = ETHERNET_BROADCAST
  /\ Sender.opcode = OPCODE_REQUEST
  /\ Sender.target_ip_address = ip_address_
  /\ Len(SelectSeq(Appended, IsARP)) = 1

\* C9: recv_frame of a frame addressed to neither the interface nor
\* broadcast, or of a frame addressed to it whose payload does not parse as
\* its type says, returns nothing and changes nothing.
Discarded(frame) ==
  \/ ~(frame.dst = ethernet_address_ \/ frame.dst = ETHERNET_BROADCAST)
  \/ frame.type = TYPE_IPv4 /\ ~parse_dgram(frame.payload)
  \/ frame.type = TYPE_ARP /\ ~parse_arp(frame.payload)

C9_DiscardLeavesState ==
  (last.op = "recv_frame" /\ Discarded(last.arg)) =>
    /\ last.ret = Nothing
    /\ State = pre

C9_Witness ==
  /\ last.op = "recv_frame"
  /\ last.arg.dst \in StrangerMACs
  /\ last.arg.type = TYPE_ARP
  /\ parse_arp(last.arg.payload)
  /\ Len(PreWaiting(last.arg.payload.arpmsg.sender_ip_address)) >= 1

\* C10: the frames maybe_send has returned so far, followed by the frames
\* still in frame_queue_, are the frames pushed so far in the order they were
\* pushed, so the returned frames are a prefix of the pushed ones; maybe_send
\* returns and removes the head of a non-empty frame_queue_ and nothing else,
\* and on an empty one returns nothing and changes nothing.
C10_FIFO ==
  /\ drained \o frame_queue = enqueued
  /\ IsPrefix(drained, enqueued)
  /\ last.op = "maybe_send" =>
       /\ arp_table = pre.arp_table
       /\ queue_table = pre.queue_table
       /\ curr_time = pre.curr_time
       /\ IF pre.frame_queue = <<>>
          THEN last.ret = Nothing /\ frame_queue = <<>>
          ELSE /\ last.ret = Some(pre.frame_queue[1])
               /\ frame_queue = SubSeq(pre.frame_queue, 2, Len(pre.frame_queue))

C10_Witness ==
  /\ last.op = "maybe_send"
  /\ Len(drained) = 1
  /\ IsARP(drained[1])
  /\ Len(frame_queue) = 1
  /\ IsIPv4(frame_queue[1])

\* C11: recv_frame returns a datagram exactly when the frame is addressed to
\* the interface or to broadcast, has type IPv4 and its payload parses as a
\* datagram; it returns that datagram and changes nothing.  A frame of type
\* ARP returns nothing.
C11_ReturnsDatagram ==
  last.op = "recv_frame" =>
    IF /\ (last.arg.dst = ethernet_address_ \/ last.arg.dst = ETHERNET_BROADCAST)
       /\ last.arg.type = TYPE_IPv4
       /\ parse_dgram(last.arg.payload)
    THEN last.ret = Some(last.arg.payload.dgram) /\ State = pre
    ELSE last.ret = Nothing

C11_Witness ==
  /\ last.op = "recv_frame"
  /\ last.arg.type = TYPE_IPv4
  /\ last.ret = Some(Dgram(7))
  /\ pre.queue_table # EmptyMap

\* C13 (as claimed): every entry of queue_table_ has a non-empty queue.
C13_NoEmptyQueue ==
  \A ip \in DOMAIN queue_table : queue_table[ip].second # <<>>

\* C14: a send_datagram that finds neither a cache entry nor a pending entry
\* for the next hop appends exactly one frame, the broadcast ARP REQUEST from
\* the local identity for the next hop with an all-zero target address, and
\* creates the pending entry stamped with the clock and holding the datagram;
\* arp_table_ is unchanged.
C14_FirstSendRequests ==
  (/\ last.op = "send_datagram"
   /\ ~contains(pre.arp_table, last.arg.next_hop)
   /\ ~contains(pre.queue_table, last.arg.next_hop)) =>
    /\ frame_queue =
         Append(pre.frame_queue,
           [dst |-> ETHERNET_BROADCAST, src |-> ethernet_address_, type |-> TYPE_ARP,
            payload |-> serialize_arp(
              [opcode |-> OPCODE_REQUEST,
               sender_ethernet_address |-> ethernet_address_,
               sender_ip_address |-> ip_address_,
               target_ethernet_address |-> ZERO_ADDRESS,
               target_ip_address |-> last.arg.next_hop])])
    /\ queue_table =
         Put(pre.queue_table, last.arg.next_hop,
             [first |-> pre.curr_time, second |-> <<last.arg.dgram>>])
    /\ arp_table = pre.arp_table
    /\ curr_time = pre.curr_time

C14_Witness ==
  /\ last.op = "send_datagram"
  /\ ~contains(pre.arp_table, last.arg.next_hop)
  /\ ~contains(pre.queue_table, last.arg.next_hop)
  /\ pre.curr_time > 0
  /\ pre.queue_table # EmptyMap
  /\ Len(frame_queue) = Len(pre.frame_queue) + 1

\* C16 (as claimed): a recv_frame that answers an ARP REQUEST for the local IP while
\* datagrams wait for the requester appends the REPLY first and then the IPv4
\* frames of the waiting datagrams in their order, every one addressed to the
\* requester's hardware address.
C16_ReplyThenFlush ==
  (/\ RecvdARP
   /\ Sender.opcode = OPCODE_REQUEST
   /\ Sender.target_ip_address = ip_address_
   /\ PreWaiting(Sender.sender_ip_address) # <<>>) =>
    LET waiting == PreWaiting(Sender.sender_ip_address)
    IN /\ IsPrefix(pre.frame_queue, frame_queue)
       /\ Len(Appended) = 1 + Len(waiting)
       /\ IsARP(Appended[1])
       /\ Appended[1].payload.arpmsg.opcode = OPCODE_REPLY
       /\ \A i \in 1..Len(waiting) :
            /\ IsIPv4(Appended[1 + i])
            /\ Appended[1 + i].payload = serialize_dgram(waiting[i])
       /\ \A i \in 1..Len(Appended) :
            Appended[i].dst = Sender.sender_ethernet_address

\* C18: every entry of arp_table_ was learnt at most 30000 before the current
\* clock, so the entry a send_datagram uses is never older than that.
C18_CacheFresh ==
  /\ \A ip \in DOMAIN arp_table : curr_time - arp_table[ip].first <= CACHE_TTL
  /\ (last.op = "send_datagram" /\ contains(pre.arp_table, last.arg.next_hop)) =>
       pre.curr_time - pre.arp_table[last.arg.next_hop].first <= CACHE_TTL

C18_Witness ==
  /\ last.op = "tick"
  /\ \E ip \in DOMAIN arp_table : curr_time - arp_table[ip].first = CACHE_TTL

\* C15: any two ARP requests pushed for the same IP are pushed more than 5000
\* apart, whether or not the first one was answered in between.
C15_RequestsSpaced ==
  \A i, j \in 1..Len(requests) :
    (i < j /\ requests[i].ip = requests[j].ip) =>
      requests[j].at - requests[i].at > PENDING_TTL

C15_Witness ==
  /\ last.op = "send_datagram"
  /\ \E i, j \in 1..Len(requests) :
       /\ i < j
       /\ requests[i].ip = requests[j].ip
       /\ \E pair \in learned : pair[1] = requests[i].ip

RequestedAt(ip, at) == \E i \in 1..Len(requests) : requests[i] = [ip |-> ip, at |-> at]

\* C19 (as claimed): an IP that has an entry in queue_table_ and none in arp_table_ has a
\* datagram waiting and an ARP request pushed at the entry's time; a
\* send_datagram that only appends to an entry finds such an entry, not older
\* than 5000.
C19_PendingHasRequest ==
  /\ \A ip \in DOMAIN queue_table :
       ~contains(arp_table, ip) =>
         /\ queue_table[ip].second # <<>>
         /\ RequestedAt(ip, queue_table[ip].first)
  /\ (/\ last.op = "send_datagram"
      /\ ~contains(pre.arp_table, last.arg.next_hop)
      /\ contains(pre.queue_table, last.arg.next_hop)) =>
       /\ pre.queue_table[last.arg.next_hop].second # <<>>
       /\ RequestedAt(last.arg.next_hop, pre.queue_table[last.arg.next_hop].first)
       /\ pre.curr_time - pre.queue_table[last.arg.next_hop].first <= PENDING_TTL

\* The places a datagram can be: the positions of the queues of queue_table_
\* that hold it, and the IPv4 frames pushed that carry it.
Positions(dgram) ==
  { <<ip, i>> \in NextHops \X (1..MaxSends + 1) :
      /\ contains(queue_table, ip)
      /\ i <= Len(queue_table[ip].second)
      /\ queue_table[ip].second[i] = dgram }
Carriers(dgram) ==
  { i \in 1..Len(carried) : carried[i].payload = serialize_dgram(dgram) }

\* C20 (as claimed): every datagram passed to send_datagram is in exactly one place: once
\* in the queue of its next hop, or carried by exactly one IPv4 frame pushed,
\* or dropped by an expiry.  Every IPv4 frame pushed carries a datagram passed
\* to send_datagram and is addressed to an address that an ARP message whose
\* sender IP is that datagram's next hop announced.
C20_Conservation ==
  /\ \A k \in 1..Len(sent) :
       LET dgram == sent[k].dgram
           waits == Cardinality(Positions(dgram))
           rides == Cardinality(Carriers(dgram))
           drops == IF dgram \in dropped THEN 1 ELSE 0
       IN /\ waits + rides + drops = 1
          /\ \A pos \in Positions(dgram) : pos[1] = sent[k].next_hop
  /\ \A i \in 1..Len(carried) :
       \E k \in 1..Len(sent) :
         /\ carried[i].type = TYPE_IPv4
         /\ carried[i].payload = serialize_dgram(sent[k].dgram)
         /\ <<sent[k].next_hop, carried[i].dst>> \in learned

\* The IP whose queue held the datagram before the call just made.
PreHolder(dgram) ==
  CHOOSE ip \in DOMAIN pre.queue_table :
    \E i \in 1..Len(pre.queue_table[ip].second) : pre.queue_table[ip].second[i] = dgram

C17_OnlyTwoWays ==
  \A dgram \in Waiting(pre.queue_table) \ Waiting(queue_table) :
    \/ /\ RecvdARP
       /\ Sender.sender_ip_address = PreHolder(dgram)
       /\ \E i \in 1..Len(Appended) :
            /\ IsIPv4(Appended[i])
            /\ Appended[i].payload = serialize_dgram(dgram)
       /\ dgram \notin dropped
    \/ /\ last.op = "tick"
       /\ curr_time - pre.queue_table[PreHolder(dgram)].first > PENDING_TTL
       /\ Appended = <<>>
       /\ dgram \in dropped

\* C17 (as claimed): a datagram leaves queue_table_ only by a recv_frame of a valid ARP
\* message whose sender IP is the entry's IP, which pushes it as an IPv4
\* frame, or by a tick that takes the clock more than 5000 past the entry's
\* time, which drops it; and while tick keeps being called, every datagram
\* that waits eventually leaves.
C17_LeavesQueue ==
  /\ []C17_OnlyTwoWays
  /\ \A n \in 1..MaxSends :
       (Dgram(n) \in Waiting(queue_table)) ~> (Dgram(n) \notin Waiting(queue_table))

InFlight(x) == net.wire[x] \o net.nic[x].frame_queue_
Holds(frames, frame) == \E i \in 1..Len(frames) : frames[i] = frame

PairRequest ==
  [dst |-> ETHERNET_BROADCAST, src |-> PairA.mac, type |-> TYPE_ARP,
   payload |-> serialize_arp(
     [opcode |-> OPCODE_REQUEST,
      sender_ethernet_address |-> PairA.mac, sender_ip_address |-> PairA.ip,
      target_ethernet_address |-> ZERO_ADDRESS, target_ip_address |-> PairB.ip])]
PairReply ==
  [dst |-> PairA.mac, src |-> PairB.mac, type |-> TYPE_ARP,
   payload |-> serialize_arp(
     [opcode |-> OPCODE_REPLY,
      sender_ethernet_address |-> PairB.mac, sender_ip_address |-> PairB.ip,
      target_ethernet_address |-> PairA.mac, target_ip_address |-> PairA.ip])]
PairData(dgram) ==
  [dst |-> PairB.mac, src |-> PairA.mac, type |-> TYPE_IPv4,
   payload |-> serialize_dgram(dgram)]

\* C12: with A and B on a wire and no tick, once A has been asked to send to
\* B's IP, A pushes exactly one broadcast ARP request for it; B, once it has
\* received the request, pushes exactly one ARP reply, addressed to A and
\* announcing B's IP at B's address; once A has received the reply its cache
\* maps B's IP to B's address and A pushes exactly one IPv4 frame per datagram
\* it was given, in order, addressed to B; and B's recv_frame returns those
\* datagrams, in order, as the frames arrive.
C12_Handshake ==
  LET n == Len(net.sent)
      asked == n > 0 /\ ~Holds(InFlight("A"), PairRequest)
      resolved == asked /\ ~Holds(InFlight("B"), PairReply)
      data == [i \in 1..(IF resolved THEN n ELSE 0) |-> PairData(net.sent[i])]
      onway == SelectSeq(InFlight("A"), LAMBDA f : f.type = TYPE_IPv4)
  IN /\ net.pushed.A = IF n = 0 THEN <<>> ELSE <<PairRequest>> \o data
     /\ net.pushed.B = IF asked THEN <<PairReply>> ELSE <<>>
     /\ contains(net.nic.A.arp_table_, PairB.ip) <=> resolved
     /\ resolved => net.nic.A.arp_table_[PairB.ip].second = PairB.mac
     /\ data = [i \in 1..Len(net.returned.B) |-> PairData(net.returned.B[i])] \o onway
     /\ net.returned.A = <<>>

C12_Witness ==
  /\ Len(net.sent) = MaxPairSends
  /\ net.sent[1] # net.sent[2]
  /\ net.returned.B = net.sent
  /\ InFlight("A") = <<>>
  /\ InFlight("B") = <<>>
  /\ Len(net.pushed.A) = 1 + MaxPairSends
  /\ net.pushed.B = <<PairReply>>
====
